---- MODULE Spec2Model ----
(***************************************************************************)
(* Model of the Simple Notes application (notes_app_frontend/src/App.js):  *)
(* the App component's state, its mount effects (hydrate from local        *)
(* storage, save to local storage), its handlers, the NoteForm validation  *)
(* and the derived filtered list.                                          *)
(*                                                                         *)
(* Strings are sequences of one-character strings.  A timestamp is the     *)
(* millisecond count Date.now() returns; toISOString is injective and      *)
(* order preserving on it, so the ISO text is represented by the count.    *)
(* The wall clock is assumed never to step backwards; it may stand still   *)
(* between two handlers (millisecond resolution).                          *)
(***************************************************************************)
EXTENDS Integers, Sequences, FiniteSets, TLC

\* ---------------------------------------------------------------- bounds
MaxNotes == 2
MaxClock == 1
MaxLen == 2

\* Values Math.random().toString(36).slice(2, 8) may return.
RandValues == {"r1", "r2"}

\* Characters a user types.
Alphabet == {"a", "A", "b", " "}

\* Drafts typed into the forms and the search box.
\* <<title, content>>
DraftInputs ==
  { <<<<>>, <<"a">>>>,
    <<<<" ">>, <<>>>>,
    <<<<"a">>, <<>>>>,
    <<<<"a">>, <<" ">>>>,
    <<<<" ", "A", "a">>, <<" ", "a", " ">>>> }
QueryInputs == {<<>>, <<"a", "a">>}

\* Collection sizes of the filter specification.
FilterLens == 0..2
FilterContents == {<<>>, <<"A">>}

Null == <<>>

\* ---------------------------------------------------------------- strings
IsSpace(c) == c = " "

RECURSIVE TrimStart(_)
TrimStart(s) ==
  IF s # <<>> /\ IsSpace(Head(s)) THEN TrimStart(Tail(s)) ELSE s

RECURSIVE TrimEnd(_)
TrimEnd(s) ==
  IF s # <<>> /\ IsSpace(s[Len(s)]) THEN TrimEnd(SubSeq(s, 1, Len(s) - 1)) ELSE s

\* String.prototype.trim
Trim(s) == TrimEnd(TrimStart(s))

LowerChar(c) == IF c = "A" THEN "a" ELSE c

\* String.prototype.toLowerCase
ToLowerCase(s) == [i \in 1..Len(s) |-> LowerChar(s[i])]

\* String.prototype.includes
Includes(s, q) ==
  \E i \in 0..(Len(s) - Len(q)) : SubSeq(s, i + 1, i + Len(q)) = q

\* All strings over Alphabet of length at most n.
Strs(n) == UNION {[1..k -> Alphabet] : k \in 0..n}

\* ---------------------------------------------------------------- storage
\* What localStorage.getItem returns: null (key absent), the empty string,
\* text JSON.parse throws on, JSON text of a non-array value, or JSON text
\* of an array, held as the array of the notes' field values in key order.
NoItem == [kind |-> "null"]
EmptyText == [kind |-> "empty"]
Malformed == [kind |-> "malformed"]
NonArrayJson == [kind |-> "object"]

NoteToJson(n) == <<n.id, n.title, n.content, n.createdAt, n.updatedAt>>

JsonToNote(t) ==
  [id |-> t[1], title |-> t[2], content |-> t[3], createdAt |-> t[4], updatedAt |-> t[5]]

\* JSON.stringify(notes)
Stringify(ns) == [kind |-> "array", items |-> [i \in 1..Len(ns) |-> NoteToJson(ns[i])]]

\* JSON.parse(raw), for raw that parses to an array
ParseArray(raw) == [i \in 1..Len(raw.items) |-> JsonToNote(raw.items[i])]

\* Hydrate with the Array.isArray test inverted.
HydrateInvertedCheck(raw) ==
  IF raw.kind \in {"null", "empty"} THEN [set |-> FALSE, val |-> <<>>]
  ELSE IF raw.kind = "malformed" THEN [set |-> FALSE, val |-> <<>>]
  ELSE IF raw.kind = "array" THEN [set |-> FALSE, val |-> <<>>]
  ELSE [set |-> TRUE, val |-> <<>>]

\* The load effect's decision: the setNotes call it queues, if any.
Hydrate(raw) ==
  IF raw.kind \in {"null", "empty"} THEN [set |-> FALSE, val |-> <<>>]
  ELSE IF raw.kind = "malformed" THEN [set |-> FALSE, val |-> <<>>]
  ELSE IF raw.kind = "array" THEN [set |-> TRUE, val |-> ParseArray(raw)]
  ELSE [set |-> FALSE, val |-> <<>>]

\* ---------------------------------------------------------------- state
VARIABLES
  pc,         \* "mount" | "loaded" | "rerender" | "ready": position in the mount sequence
  notes,      \* useState([]) : the collection
  query,      \* useState('')
  isAdding,   \* useState(false)
  editingId,  \* useState(null)
  addError,   \* NoteForm error state of the add form
  editError,  \* NoteForm error state of the edit form
  storage,    \* localStorage item 'notes_app__notes'
  raw,        \* the load effect's local: what getItem returned
  pending,    \* the state update the load effect queued
  clock,      \* Date.now()
  writable    \* FALSE when setItem throws (storage full or disabled)

vars == <<pc, notes, query, isAdding, editingId, addError, editError,
          storage, raw, pending, clock, writable>>

NoPending == [set |-> FALSE, val |-> <<>>]

\* uid(): `${Date.now()}-${random}`, as the pair of its two parts
uid(now, r) == <<now, r>>

\* Filtered without lower-casing the query.
FilteredQueryCase(ns, qy) ==
  LET q == Trim(qy)
  IN  IF q = <<>> THEN ns
      ELSE SelectSeq(ns, LAMBDA n :
             Includes(ToLowerCase(n.title), q) \/ Includes(ToLowerCase(n.content), q))

\* The derived filtered list (useMemo).
Filtered(ns, qy) ==
  LET q == ToLowerCase(Trim(qy))
  IN  IF q = <<>> THEN ns
      ELSE SelectSeq(ns, LAMBDA n :
             Includes(ToLowerCase(n.title), q) \/ Includes(ToLowerCase(n.content), q))

filtered == Filtered(notes, query)

\* The edit form is rendered for every listed note whose id is editingId.
EditFormShown(ns, qy, eid) ==
  eid # Null /\ \E i \in 1..Len(Filtered(ns, qy)) : Filtered(ns, qy)[i].id = eid

\* ---------------------------------------------------------------- handlers
\* The collection handleCreate sets.
handleCreate(ns, now, r, title, content) ==
  LET newNote == [id |-> uid(now, r),
                  title |-> Trim(title),
                  content |-> Trim(content),
                  createdAt |-> now,
                  updatedAt |-> now]
  IN  <<newNote>> \o ns

\* The collection handleUpdate sets.
handleUpdate(ns, id, now, title, content) ==
  [i \in 1..Len(ns) |->
     IF ns[i].id = id
       THEN [ns[i] EXCEPT !.title = Trim(title),
                          !.content = Trim(content),
                          !.updatedAt = now]
       ELSE ns[i]]

\* The collection handleDelete sets, ok being window.confirm's answer.
handleDelete(ns, id, ok) ==
  IF ok THEN SelectSeq(ns, LAMBDA n : n.id # id) ELSE ns

\* Rejected without trimming the title.
RejectedUntrimmed(title) == title = <<>>

\* NoteForm.submit's validation: TRUE when the title is rejected.
Rejected(title) == Trim(title) = <<>>

\* SaveEffect that skips an empty collection.
SaveEffectUnlessEmpty(ns) ==
  storage' = IF writable /\ ns # <<>> THEN Stringify(ns) ELSE storage

\* The save effect: localStorage.setItem(key, JSON.stringify(ns)); a throw
\* (quota) is swallowed and leaves the item as it was.  Whether setItem
\* throws is a condition of the browser that holds for the whole run.
SaveEffect(ns) ==
  storage' = IF writable THEN Stringify(ns) ELSE storage

\* ---------------------------------------------------------------- startup
\* A note an earlier session persisted, before this run starts at time 0.
SeedNote ==
  [id |-> uid(-1, "r1"), title |-> <<"A">>, content |-> <<>>, createdAt |-> -1, updatedAt |-> -1]

InitialStorage ==
  {NoItem, EmptyText, Malformed, NonArrayJson, Stringify(<<>>), Stringify(<<SeedNote>>)}

Init ==
  /\ pc = "mount"
  /\ notes = <<>>
  /\ query = <<>>
  /\ isAdding = FALSE
  /\ editingId = Null
  /\ addError = FALSE
  /\ editError = FALSE
  /\ \/ writable = TRUE /\ storage \in InitialStorage
     \/ writable = FALSE /\ storage = Stringify(<<SeedNote>>)
  /\ raw = NoItem
  /\ pending = NoPending
  /\ clock = 0

\* The load effect, run once after the first render.
LoadEffect ==
  /\ pc = "mount"
  /\ raw' = storage
  /\ pending' = Hydrate(storage)
  /\ pc' = "loaded"
  /\ UNCHANGED <<notes, query, isAdding, editingId, addError, editError,
                 storage, clock, writable>>

\* The save effect's first run, after the first render, with notes = [].
SaveEffectOnMount ==
  /\ pc = "loaded"
  /\ SaveEffect(notes)
  /\ pc' = IF pending.set THEN "rerender" ELSE "ready"
  /\ raw' = IF pending.set THEN raw ELSE NoItem
  /\ UNCHANGED <<notes, query, isAdding, editingId, addError, editError,
                 pending, clock, writable>>

\* The render the queued setNotes(parsed) causes, and the save effect after it.
HydrateRender ==
  /\ pc = "rerender"
  /\ notes' = pending.val
  /\ SaveEffect(notes')
  /\ pending' = NoPending
  /\ raw' = NoItem
  /\ pc' = "ready"
  /\ UNCHANGED <<query, isAdding, editingId, addError, editError, clock, writable>>

\* The page is closed or reloaded and the application starts again, later.
Restart ==
  /\ clock < MaxClock
  /\ clock' = clock + 1
  /\ pc' = "mount"
  /\ notes' = <<>>
  /\ query' = <<>>
  /\ isAdding' = FALSE
  /\ editingId' = Null
  /\ addError' = FALSE
  /\ editError' = FALSE
  /\ raw' = NoItem
  /\ pending' = NoPending
  /\ UNCHANGED <<storage, writable>>

\* Time passes.
Tick ==
  /\ clock < MaxClock
  /\ clock' = clock + 1
  /\ UNCHANGED <<pc, notes, query, isAdding, editingId, addError, editError,
                 storage, raw, pending, writable>>

\* ---------------------------------------------------------------- user actions
\* SearchBox onChange / clear button: setQuery.
ChangeQuery(q) ==
  /\ pc = "ready"
  /\ q # query
  /\ query' = q
  /\ editError' = (editError /\ EditFormShown(notes, q, editingId))
  /\ UNCHANGED <<pc, notes, isAdding, editingId, addError, storage, raw, pending,
                 clock, writable>>

\* The header's "+ New Note" button.
ClickNewNote ==
  /\ pc = "ready"
  /\ isAdding' = TRUE
  /\ editingId' = Null
  /\ editError' = FALSE
  /\ UNCHANGED <<pc, notes, query, addError, storage, raw, pending, clock, writable>>

\* EmptyState's create button, rendered when the filtered list is empty.
ClickEmptyCreate ==
  /\ pc = "ready"
  /\ Len(filtered) = 0
  /\ isAdding' = TRUE
  /\ UNCHANGED <<pc, notes, query, editingId, addError, editError, storage, raw,
                 pending, clock, writable>>

\* NoteView's Edit button on the i-th listed note.
ClickEdit(i) ==
  /\ pc = "ready"
  /\ i \in 1..Len(filtered)
  /\ filtered[i].id # editingId
  /\ editingId' = filtered[i].id
  /\ isAdding' = FALSE
  /\ addError' = FALSE
  /\ editError' = FALSE
  /\ UNCHANGED <<pc, notes, query, storage, raw, pending, clock, writable>>

\* The add form's Cancel button.
CancelAdd ==
  /\ pc = "ready"
  /\ isAdding
  /\ isAdding' = FALSE
  /\ addError' = FALSE
  /\ UNCHANGED <<pc, notes, query, editingId, editError, storage, raw, pending,
                 clock, writable>>

\* The edit form's Cancel button.
CancelEdit ==
  /\ pc = "ready"
  /\ EditFormShown(notes, query, editingId)
  /\ editingId' = Null
  /\ editError' = FALSE
  /\ UNCHANGED <<pc, notes, query, isAdding, addError, storage, raw, pending,
                 clock, writable>>

\* The window keydown listener, on the Escape key.
onKey ==
  /\ pc = "ready"
  /\ isAdding' = FALSE
  /\ editingId' = Null
  /\ addError' = FALSE
  /\ editError' = FALSE
  /\ UNCHANGED <<pc, notes, query, storage, raw, pending, clock, writable>>

\* The title input's onChange clears a shown error.
TypeTitleAdd ==
  /\ pc = "ready"
  /\ isAdding
  /\ addError
  /\ addError' = FALSE
  /\ UNCHANGED <<pc, notes, query, isAdding, editingId, editError, storage, raw,
                 pending, clock, writable>>

TypeTitleEdit ==
  /\ pc = "ready"
  /\ EditFormShown(notes, query, editingId)
  /\ editError
  /\ editError' = FALSE
  /\ UNCHANGED <<pc, notes, query, isAdding, editingId, addError, storage, raw,
                 pending, clock, writable>>

\* The add form is submitted with the drafts title and content.
SubmitAdd(title, content, r) ==
  /\ pc = "ready"
  /\ isAdding
  /\ IF Rejected(title)
       THEN /\ addError' = TRUE
            /\ UNCHANGED <<notes, isAdding, storage>>
       ELSE /\ Len(notes) < MaxNotes
            /\ notes' = handleCreate(notes, clock, r, title, content)
            /\ isAdding' = FALSE
            /\ addError' = FALSE
            /\ SaveEffect(notes')
  /\ editError' = (editError /\ EditFormShown(notes', query, editingId))
  /\ UNCHANGED <<pc, query, editingId, raw, pending, clock, writable>>

\* The edit form is submitted with the drafts title and content.
SubmitEdit(title, content) ==
  /\ pc = "ready"
  /\ EditFormShown(notes, query, editingId)
  /\ IF Rejected(title)
       THEN /\ editError' = TRUE
            /\ UNCHANGED <<notes, editingId, storage>>
       ELSE /\ notes' = handleUpdate(notes, editingId, clock, title, content)
            /\ editingId' = Null
            /\ editError' = FALSE
            /\ SaveEffect(notes')
  /\ UNCHANGED <<pc, query, isAdding, addError, raw, pending, clock, writable>>

\* NoteView's Delete button on the i-th listed note; ok is the confirm answer.
ClickDelete(i, ok) ==
  /\ pc = "ready"
  /\ i \in 1..Len(filtered)
  /\ filtered[i].id # editingId
  /\ notes' = handleDelete(notes, filtered[i].id, ok)
  /\ IF ok
       THEN SaveEffect(notes')
       ELSE UNCHANGED storage
  /\ editError' = (editError /\ EditFormShown(notes', query, editingId))
  /\ UNCHANGED <<pc, query, isAdding, editingId, addError, raw, pending, clock, writable>>

Next ==
  \/ LoadEffect
  \/ SaveEffectOnMount
  \/ HydrateRender
  \/ Restart
  \/ Tick
  \/ \E q \in QueryInputs : ChangeQuery(q)
  \/ ClickNewNote
  \/ ClickEmptyCreate
  \/ \E i \in 1..MaxNotes : ClickEdit(i)
  \/ CancelAdd
  \/ CancelEdit
  \/ onKey
  \/ TypeTitleAdd
  \/ TypeTitleEdit
  \/ \E d \in DraftInputs, r \in RandValues : SubmitAdd(d[1], d[2], r)
  \/ \E d \in DraftInputs : SubmitEdit(d[1], d[2])
  \/ \E i \in 1..MaxNotes, ok \in BOOLEAN : ClickDelete(i, ok)

Spec == Init /\ [][Next]_vars

\* ---------------------------------------------------------------- filter specification
\* The filter over collections and queries drawn from all strings of length
\* at most MaxLen: the state after the collection was built and the query
\* typed; the only operation is the search box's setQuery.
FilterNote(i, f) ==
  [id |-> uid(i, "r1"), title |-> f[1], content |-> f[2], createdAt |-> 0, updatedAt |-> 0]

\* Titles a note can hold: non-empty and trimmed.
FilterTitles == {s \in Strs(MaxLen) : s # <<>> /\ Trim(s) = s}

FilterCollections ==
  UNION { { [i \in 1..k |-> FilterNote(i, fs[i])] :
              fs \in [1..k -> FilterTitles \X FilterContents] } : k \in FilterLens }

InitFilter ==
  /\ pc = "ready"
  /\ notes \in FilterCollections
  /\ query \in Strs(MaxLen)
  /\ isAdding = FALSE
  /\ editingId = Null
  /\ addError = FALSE
  /\ editError = FALSE
  /\ storage = Stringify(notes)
  /\ raw = NoItem
  /\ pending = NoPending
  /\ clock = 0
  /\ writable = TRUE

NextFilter == \E q \in QueryInputs : ChangeQuery(q)

SpecFilter == InitFilter /\ [][NextFilter]_vars

\* ---------------------------------------------------------------- properties
Ids(ns) == {ns[i].id : i \in 1..Len(ns)}

\* ns without its i-th element.
RemoveAt(ns, i) == SubSeq(ns, 1, i - 1) \o SubSeq(ns, i + 1, Len(ns))

\* A step of the running application (not of the mount sequence, not a restart).
ReadyStep == pc = "ready" /\ pc' = "ready"

IsTrimmed(s) == s = <<>> \/ (~IsSpace(s[1]) /\ ~IsSpace(s[Len(s)]))

\* C1: at most one of {add form visible, edit in progress} holds in every
\* reachable state.
C1_ModeExclusivity == ~(isAdding /\ editingId # Null)

\* C2: a create step puts exactly one new note in front of the unchanged
\* previous collection; the new note has an id not already in the collection,
\* a trimmed non-empty title, trimmed content and createdAt = updatedAt; the
\* add form is closed afterwards.
C2_CreatePrependsFreshNote ==
  [][(ReadyStep /\ Len(notes') > Len(notes)) =>
       /\ Len(notes') = Len(notes) + 1
       /\ Tail(notes') = notes
       /\ Head(notes').id \notin Ids(notes)
       /\ Head(notes').title # <<>>
       /\ IsTrimmed(Head(notes').title)
       /\ IsTrimmed(Head(notes').content)
       /\ Head(notes').createdAt = Head(notes').updatedAt
       /\ ~isAdding']_vars

\* C3: an update step changes exactly one note, the edited one; it keeps the
\* note's id and createdAt, does not move updatedAt backwards, stores trimmed
\* title and content, leaves every other note, the order and the length
\* unchanged, and closes edit mode.
C3_UpdateFrame ==
  [][(ReadyStep /\ Len(notes') = Len(notes) /\ notes' # notes) =>
       /\ editingId' = Null
       /\ \E i \in 1..Len(notes) :
            /\ notes[i].id = editingId
            /\ notes'[i].id = notes[i].id
            /\ notes'[i].createdAt = notes[i].createdAt
            /\ notes'[i].updatedAt >= notes[i].updatedAt
            /\ notes'[i].title # <<>>
            /\ IsTrimmed(notes'[i].title)
            /\ IsTrimmed(notes'[i].content)
            /\ \A j \in 1..Len(notes) : j # i => notes'[j] = notes[j]]_vars

\* C4: an accepted delete removes exactly one note, the targeted one, and
\* keeps the others in order; a declined delete changes neither the
\* collection nor the storage.
C4_DeleteRemovesOne ==
  [][/\ (ReadyStep /\ Len(notes') < Len(notes)) =>
          \E i \in 1..Len(notes) : notes' = RemoveAt(notes, i)
     /\ \A i \in 1..MaxNotes :
          ClickDelete(i, FALSE) => (notes' = notes /\ storage' = storage)]_vars

\* C5: once the application runs and writes succeed, the storage holds the
\* serialization of the collection, and hydrating from it gives the
\* collection back: same notes, same fields, same order.
C5_PersistenceRoundTrip ==
  (pc = "ready" /\ writable) =>
     /\ storage = Stringify(notes)
     /\ Hydrate(storage).set
     /\ Hydrate(storage).val = notes

\* C5 witness: two notes, one of them edited, are in memory and in storage.
C5_Witness ==
  /\ pc = "ready"
  /\ writable
  /\ Len(notes) = 2
  /\ \E i \in 1..2 : notes[i].updatedAt > notes[i].createdAt
  /\ storage.kind = "array"
  /\ Len(storage.items) = 2

\* C6: updatedAt >= createdAt for every note; a note a step creates has
\* updatedAt = createdAt, and a note a step edits has updatedAt # createdAt
\* afterwards (the Updated badge shows exactly for edited notes).
C6_EditedIffTimestampsDiffer ==
  [][ReadyStep =>
       /\ \A i \in 1..Len(notes') : notes'[i].updatedAt >= notes'[i].createdAt
       /\ Len(notes') > Len(notes) => Head(notes').updatedAt = Head(notes').createdAt
       /\ (Len(notes') = Len(notes) /\ notes' # notes) =>
            \A i \in 1..Len(notes) :
              notes'[i] # notes[i] => notes'[i].updatedAt # notes'[i].createdAt]_vars

\* Case-insensitive containment, character by character.
SameLetter(c, d) == c = d \/ {c, d} = {"a", "A"}

ContainsIgnoringCase(s, q) ==
  \E off \in 0..(Len(s) - Len(q)) : \A j \in 1..Len(q) : SameLetter(s[off + j], q[j])

Matches(n, qy) ==
  ContainsIgnoringCase(n.title, Trim(qy)) \/ ContainsIgnoringCase(n.content, Trim(qy))

IsSubsequence(sub, ns) ==
  \E f \in [1..Len(sub) -> 1..Len(ns)] :
    /\ \A i \in 1..Len(sub) : sub[i] = ns[f[i]]
    /\ \A i \in 1..Len(sub), j \in 1..Len(sub) : i < j => f[i] < f[j]

\* C7: the visible list is a sub-sequence of the collection, holds exactly
\* the notes whose title or content contains the trimmed query ignoring
\* case, and is the whole collection when the query is empty or blank.
C7_FilterIsMatchingSubsequence ==
  /\ IsSubsequence(filtered, notes)
  /\ \A i \in 1..Len(notes) : (notes[i].id \in Ids(filtered)) <=> Matches(notes[i], query)
  /\ Trim(query) = <<>> => filtered = notes

\* C7 witness: a query with blanks around it and in another case than the
\* text keeps one of two notes.
C7_Witness ==
  /\ Len(notes) = 2
  /\ Len(filtered) = 1
  /\ filtered[1] = notes[2]
  /\ Trim(query) # query
  /\ Trim(query) # <<>>
  /\ ~Includes(notes[2].title, Trim(query))
  /\ ~Includes(notes[2].content, Trim(query))

\* C8: no note ever has an empty or untrimmed title, so no submit of an
\* empty or blank title reaches Create or Update; a step that raises a form's
\* validation error leaves the collection and the storage unchanged and the
\* form open.
C8_EmptyTitleRejected ==
  [][/\ \A i \in 1..Len(notes') :
          notes'[i].title # <<>> /\ IsTrimmed(notes'[i].title)
     /\ (~addError /\ addError') =>
          (notes' = notes /\ storage' = storage /\ isAdding /\ isAdding')
     /\ (~editError /\ editError') =>
          /\ notes' = notes
          /\ storage' = storage
          /\ editingId' = editingId
          /\ EditFormShown(notes', query', editingId')]_vars

\* C8 witness: the edit form of a listed note shows the validation error.
C8_Witness ==
  /\ pc = "ready"
  /\ editError
  /\ EditFormShown(notes, query, editingId)
  /\ Len(notes) = 2

\* What startup must yield from the storage value it read.
ExpectedAfterStartup(item) ==
  IF item.kind = "array"
    THEN [i \in 1..Len(item.items) |->
            [id |-> item.items[i][1], title |-> item.items[i][2],
             content |-> item.items[i][3], createdAt |-> item.items[i][4],
             updatedAt |-> item.items[i][5]]]
    ELSE <<>>

\* C9: when the mount sequence completes, the collection is the array the
\* storage held at startup, or empty if the item was absent, unparseable or
\* not an array.
C9_Hydration ==
  [][(pc # "ready" /\ pc' = "ready") => notes' = ExpectedAfterStartup(raw)]_vars

\* C9 witness: the running application holds the note of an earlier session.
C9_Witness ==
  /\ pc = "ready"
  /\ Len(notes) = 1
  /\ notes[1] = SeedNote

\* C10: the storage is written only by a step that changes the collection
\* of the running application; the mount sequence writes nothing.
C10_WritesFollowMutations ==
  [][storage' # storage => (ReadyStep /\ notes' # notes)]_vars

====
